---- MODULE Spec2Model ----
(***************************************************************************)
(* A model of the atom-interaction simulator: the Simulation object of     *)
(* sim_core.py (particles, bond ledger, spatial grid, temperature), the    *)
(* chemistry rules of chemistry.py and the kernel of physics.py.           *)
(*                                                                         *)
(* Units.  Reals are kept as scaled integers:                              *)
(*   temperature        hundredths          (0.75  -> 75)                  *)
(*   electronegativity  hundredths          (1.6   -> 160)                 *)
(*   shell fill/deficit halves              (0.5   -> 1)                   *)
(*   bond length, r     tenths              (12.5  -> 125)                 *)
(*   random.random()    thousandths         (0.97  -> 970)                 *)
(*   positions, displacements, speed^2      whole units                    *)
(* Particle indices are 0-based as in the source; None is -1.              *)
(*                                                                         *)
(* Velocities are continuous state that only the two relative-speed gates  *)
(* (try_form_bond, try_break_bond) read; the model draws the relative      *)
(* speed^2 a gate sees from RelV2Values instead of integrating forces.     *)
(* step() is modelled by its phases in program order (pc); no other        *)
(* operation interleaves with a running step().                            *)
(***************************************************************************)
EXTENDS Integers, Sequences, FiniteSets, TLC

VARIABLES
    ptype,        \* Particle.type per particle index
    pos,          \* Particle.(x, y) per particle index
    pbonds,       \* Particle.bonds per particle index (adjacency list)
    bonds,        \* Simulation.bonds, the ledger (sequence of Bond records)
    grid,         \* SpatialGrid.grid: cell -> sequence of particle indices
    temperature,  \* Simulation.temperature
    pc,           \* position inside step() / the pure-function harnesses
    pairs,        \* pair pass: the (i, j) iterations still to run
    curRv,        \* relative speed^2 of the pair being processed
    calls,        \* number of API calls made so far
    call          \* the last operation run, its arguments and its result

vars == <<ptype, pos, pbonds, bonds, grid, temperature, pc, pairs, curRv, calls, call>>

----------------------------------------------------------------------------
(* Bounds of the model *)

MaxParticles == 3
MaxCalls == 2

(* Input values.  The PosChoices that lie within CAPTURE_RADIUS of each     *)
(* other are a whole number of units apart, so r is exact in tenths.        *)
PosChoices == << <<15, 10>>, <<5, 10>>, <<5, 34>>, <<35, 10>>, <<795, 10>> >>
InitTemps == {75, 110, 170}
TempAmounts == {10}
RelV2Values == {0, 60}
DrawValues == {0, 500, 990}

----------------------------------------------------------------------------
(* physics.py constants *)

WORLD_WIDTH == 800
WORLD_HEIGHT == 800
BOND_BREAK_THRESHOLD == 19          \* 1.9, in tenths

(* chemistry.py constants *)

TARGET_SHELL == 5
VALENCE_ELECTRONS == <<1, 2, 3, 4, 5>>
ELECTRONEG == <<100, 160, 210, 260, 310>>
TYPE_MAX_BONDS == <<1, 2, 3, 4, 1>>
TYPE_PREFER_MULTIPLE == <<FALSE, FALSE, FALSE, TRUE, FALSE>>
TYPE_PREFER_BRANCH == <<FALSE, FALSE, TRUE, TRUE, FALSE>>
MAX_BONDS_BASE == 4
T_GEOM_MAX == 90
T_IONIC_MIN == 160
CAPTURE_RADIUS == 34
BOND_FORM_RADIUS == 26
CELL_SIZE == 42
TEMP_FLOOR == 5                     \* 0.05
SUBST_T_MIN == 105                  \* 1.05
None == -1

----------------------------------------------------------------------------
(* helpers *)

Max(a, b) == IF a >= b THEN a ELSE b
Min(a, b) == IF a <= b THEN a ELSE b
Abs(a) == IF a >= 0 THEN a ELSE -a

RECURSIVE IsqrtBS(_, _, _)
IsqrtBS(n, lo, hi) ==
    IF lo >= hi THEN lo
    ELSE LET mid == (lo + hi + 1) \div 2
         IN  IF mid * mid <= n THEN IsqrtBS(n, mid, hi) ELSE IsqrtBS(n, lo, mid - 1)

\* floor(sqrt(n))
Isqrt(n) == IsqrtBS(n, 0, 6000)

NumParticles == Cardinality(DOMAIN ptype)
Indices == DOMAIN ptype

\* "x in list"
InList(x, s) == \E n \in 1..Len(s) : s[n] = x

\* list.remove(x): drops the first occurrence
RECURSIVE ListRemove(_, _)
ListRemove(s, x) ==
    IF s = <<>> THEN <<>>
    ELSE IF Head(s) = x THEN Tail(s)
    ELSE <<Head(s)>> \o ListRemove(Tail(s), x)

\* a Python list as a function on 0 .. len-1
ZeroBased(s) == [k \in 0..(Len(s) - 1) |-> s[k + 1]]

\* list.pop(n)
ListPop(s, n) == SubSeq(s, 1, n - 1) \o SubSeq(s, n + 1, Len(s))

----------------------------------------------------------------------------
(* physics.py *)

\* mutant of WrapComponent: the negative side is never folded back
WrapComponent_noAdd(d, extent) ==
    IF 2 * d > extent THEN d - extent ELSE d

\* one component of wrap(dx, dy)
WrapComponent(d, extent) ==
    IF 2 * d > extent THEN d - extent
    ELSE IF 2 * d < -extent THEN d + extent
    ELSE d

wrap(dx, dy) == <<WrapComponent(dx, WORLD_WIDTH), WrapComponent(dy, WORLD_HEIGHT)>>

\* the wrapped displacement from particle i to particle j
Disp(p, i, j) == wrap(p[j][1] - p[i][1], p[j][2] - p[i][2])

\* r2 = dx*dx + dy*dy of the wrapped displacement
R2(p, i, j) == LET d == Disp(p, i, j) IN d[1] * d[1] + d[2] * d[2]

\* r = math.sqrt(r2), in tenths
R10(p, i, j) == Isqrt(100 * R2(p, i, j))

\* mutant of compute_bond_force_broken: the threshold grows with the bond
\* order, as the one of try_break_bond does
compute_bond_force_broken_byOrder(p, b) ==
    IF R2(p, b.i, b.j) = 0 THEN FALSE
    ELSE R10(p, b.i, b.j) * 100 > b.length * BOND_BREAK_THRESHOLD * (10 + 2 * (b.order - 1))

\* compute_bond_force: the broken flag (r > bond.length * BOND_BREAK_THRESHOLD);
\* the degenerate r2 < 1e-9 case returns (0, 0, False)
compute_bond_force_broken(p, b) ==
    IF R2(p, b.i, b.j) = 0 THEN FALSE
    ELSE R10(p, b.i, b.j) * 10 > b.length * BOND_BREAK_THRESHOLD

----------------------------------------------------------------------------
(* chemistry.py: shell bookkeeping *)

\* the contribution of one ledger bond to the shell fill of particle p, in halves
FillOf(b, p) ==
    IF b.i # p /\ b.j # p THEN 0
    ELSE IF b.type = "covalent" THEN 2 * b.order
    ELSE IF b.type = "ionic" THEN
        (IF b.acceptor = p THEN 2 * b.order
         ELSE IF b.donor = p THEN -2 * b.order ELSE 0)
    ELSE IF b.type = "metallic" THEN b.order
    ELSE 0

RECURSIVE FillSum(_, _)
FillSum(bs, p) == IF bs = <<>> THEN 0 ELSE FillOf(Head(bs), p) + FillSum(Tail(bs), p)

shell_fill(p, types, bs) == 2 * VALENCE_ELECTRONS[types[p] + 1] + FillSum(bs, p)

shell_deficit(p, types, bs) == Max(0, 2 * TARGET_SHELL - shell_fill(p, types, bs))

\* extra = int(math.ceil(d * 0.7)) with d = d2 / 2
CeilExtra(d2) == (7 * d2 + 19) \div 20

dynamic_max_bonds(p, types, bs) ==
    LET base == TYPE_MAX_BONDS[types[p] + 1]
        d == shell_deficit(p, types, bs)
    IN  Max(0, Min(5, base + CeilExtra(d)))

classify_bond_type_temp(ti, tj, T) ==
    LET diff == Abs(ELECTRONEG[ti + 1] - ELECTRONEG[tj + 1])
    IN  IF T <= T_GEOM_MAX THEN (IF diff < 160 THEN "covalent" ELSE "ionic")
        ELSE IF T >= T_IONIC_MIN THEN (IF diff > 90 THEN "ionic" ELSE "metallic")
        ELSE IF diff < 35 THEN "metallic"
        ELSE IF diff < 120 THEN "covalent"
        ELSE "ionic"

\* dipole_from_EN: the unit vector along i->j, pointing at the more
\* electronegative end; kept as the index of the particle it points at
dipole_from_EN(p, types, i, j) ==
    IF R2(p, i, j) = 0 THEN None
    ELSE IF ELECTRONEG[types[j] + 1] > ELECTRONEG[types[i] + 1] THEN j ELSE i

----------------------------------------------------------------------------
(* chemistry.py: bond formation and removal.  The operators take the        *)
(* ledger bs and the adjacency lists adj and return the new ones.           *)

FirstMatch(bs, i, j) ==
    LET hits == {n \in 1..Len(bs) : \/ (bs[n].i = i /\ bs[n].j = j)
                                     \/ (bs[n].i = j /\ bs[n].j = i)}
    IN  IF hits = {} THEN 0 ELSE CHOOSE n \in hits : \A m \in hits : n <= m

\* mutant of remove_bond_between: the adjacency list of j keeps i
remove_bond_between_oneSided(i, j, bs, adj) ==
    LET idx == FirstMatch(bs, i, j)
        bs1 == IF idx = 0 THEN bs ELSE ListPop(bs, idx)
        adj1 == IF InList(j, adj[i]) THEN [adj EXCEPT ![i] = ListRemove(@, j)] ELSE adj
    IN  [bonds |-> bs1, pbonds |-> adj1]

\* remove_bond_between(i, j, bonds, particles)
remove_bond_between(i, j, bs, adj) ==
    LET idx == FirstMatch(bs, i, j)
        bs1 == IF idx = 0 THEN bs ELSE ListPop(bs, idx)
        adj1 == IF InList(j, adj[i]) THEN [adj EXCEPT ![i] = ListRemove(@, j)] ELSE adj
        adj2 == IF InList(i, adj1[j]) THEN [adj1 EXCEPT ![j] = ListRemove(@, i)] ELSE adj1
    IN  [bonds |-> bs1, pbonds |-> adj2]

\* relv2 > relv2_limit, with relv2_limit = REL_V2_BASE * T + REL_V2_STABIL_BONUS * (di + dj) / 3.5
TooFastToBond(rv, T, dsum) == 700 * rv > 42 * T + 800 * dsum

\* p_form in thousandths, before the cap at 0.97
PForm(ti, tj, T, dsum) ==
    280 + 80 * dsum
    + (IF T <= T_GEOM_MAX THEN 200 ELSE IF T >= T_IONIC_MIN THEN 100 ELSE 0)
    + (IF TYPE_PREFER_BRANCH[ti + 1] \/ TYPE_PREFER_BRANCH[tj + 1] THEN 80 ELSE 0)

\* the order a new bond gets; u2 and u3 are the two random draws
BondOrder(bond_type, ti, tj, T, dsum, u2, u3) ==
    LET prefer_multi == TYPE_PREFER_MULTIPLE[ti + 1] \/ TYPE_PREFER_MULTIPLE[tj + 1]
        base_prob2 == IF prefer_multi THEN 550 ELSE 350
        base_prob3 == IF prefer_multi THEN 180 ELSE 80
        order2 == IF bond_type = "covalent" /\ T <= T_GEOM_MAX /\ dsum >= 6 /\ u2 < base_prob2
                  THEN 2 ELSE 1
    IN  IF bond_type = "covalent" /\ T <= T_GEOM_MAX /\ dsum >= 10 /\ order2 = 2 /\ u3 < base_prob3
        THEN 3 ELSE order2

\* the equilibrium length of a new bond: r clamped to the band of its type
BondLength(bond_type, r) ==
    IF bond_type = "covalent" THEN Max(125, Min(180, r))
    ELSE IF bond_type = "ionic" THEN Max(140, Min(210, r))
    ELSE Max(150, Min(220, r))

\* Bond(i, j, ...) as try_form_bond fills it in
NewBond(i, j, types, p, T, dsum, u2, u3) ==
    LET bond_type == classify_bond_type_temp(types[i], types[j], T)
        i_acc == ELECTRONEG[types[i] + 1] > ELECTRONEG[types[j] + 1]
    IN  [i |-> i, j |-> j, type |-> bond_type,
         order |-> BondOrder(bond_type, types[i], types[j], T, dsum, u2, u3),
         length |-> BondLength(bond_type, R10(p, i, j)),
         dipole |-> dipole_from_EN(p, types, i, j),
         acceptor |-> IF bond_type = "ionic" THEN (IF i_acc THEN i ELSE j) ELSE None,
         donor |-> IF bond_type = "ionic" THEN (IF i_acc THEN j ELSE i) ELSE None,
         age |-> 0]

\* mutant of FormRefused: the "both shells full" guard is missing
FormRefused_noDeficit(i, j, types, p, adj, bs, T, rv, u1) ==
    LET di == shell_deficit(i, types, bs)
        dj == shell_deficit(j, types, bs)
    IN  \/ Len(adj[i]) >= dynamic_max_bonds(i, types, bs)
        \/ Len(adj[j]) >= dynamic_max_bonds(j, types, bs)
        \/ R2(p, i, j) > BOND_FORM_RADIUS * BOND_FORM_RADIUS
        \/ TooFastToBond(rv, T, di + dj)
        \/ u1 > Min(970, PForm(types[i], types[j], T, di + dj))

\* the guards of try_form_bond, in the order of the code
FormRefused(i, j, types, p, adj, bs, T, rv, u1) ==
    LET di == shell_deficit(i, types, bs)
        dj == shell_deficit(j, types, bs)
    IN  \/ Len(adj[i]) >= dynamic_max_bonds(i, types, bs)
        \/ Len(adj[j]) >= dynamic_max_bonds(j, types, bs)
        \/ (di <= 0 /\ dj <= 0)
        \/ R2(p, i, j) > BOND_FORM_RADIUS * BOND_FORM_RADIUS
        \/ TooFastToBond(rv, T, di + dj)
        \/ u1 > Min(970, PForm(types[i], types[j], T, di + dj))

\* try_form_bond(i, j, particles, bonds, temperature); rv is the pair's
\* relative speed^2 and u1, u2, u3 the draws of random.random()
try_form_bond(i, j, types, p, adj, bs, T, rv, u1, u2, u3) ==
    IF FormRefused(i, j, types, p, adj, bs, T, rv, u1)
    THEN [ok |-> FALSE, bonds |-> bs, pbonds |-> adj]
    ELSE LET dsum == shell_deficit(i, types, bs) + shell_deficit(j, types, bs)
         IN  [ok |-> TRUE,
              bonds |-> Append(bs, NewBond(i, j, types, p, T, dsum, u2, u3)),
              pbonds |-> [adj EXCEPT ![i] = Append(@, j), ![j] = Append(@, i)]]

\* try_break_bond(bond, particles, temperature)
try_break_bond(b, p, adj, T, rv) ==
    LET stretched == R10(p, b.i, b.j) * 100
                       > b.length * BOND_BREAK_THRESHOLD * (10 + 2 * (b.order - 1))
        base10 == IF b.type = "covalent" THEN 180 ELSE 120
        hot == IF T >= T_IONIC_MIN /\ b.type # "covalent" THEN 7 ELSE 10
        cluster == 5 + Min(Len(adj[b.i]), Len(adj[b.j]))
    IN  stretched \/ rv * 50000 > base10 * hot * cluster * T * b.order

\* reaction_addition(i, j, ...)
reaction_addition(i, j, types, p, adj, bs, T, rv, u1, u2, u3) ==
    IF (Len(adj[i]) > 0) # (Len(adj[j]) > 0)
    THEN try_form_bond(i, j, types, p, adj, bs, T, rv, u1, u2, u3)
    ELSE [ok |-> FALSE, bonds |-> bs, pbonds |-> adj]

\* the scan of reaction_substitution: the first bonded neighbour of i with
\* the lowest electronegativity (None when i has no bonds)
RECURSIVE WeakestFrom(_, _, _, _)
WeakestFrom(nb, types, best_k, best_en) ==
    IF nb = <<>> THEN best_k
    ELSE LET e_k == ELECTRONEG[types[Head(nb)] + 1]
         IN  IF e_k < best_en THEN WeakestFrom(Tail(nb), types, Head(nb), e_k)
             ELSE WeakestFrom(Tail(nb), types, best_k, best_en)

weakest_k(i, types, adj) == WeakestFrom(adj[i], types, None, 99900)

\* whether reaction_substitution(i, j) displaces the weakest neighbour
SubstitutionFires(i, j, types, adj, T) ==
    /\ T >= SUBST_T_MIN
    /\ Len(adj[i]) > 0
    /\ weakest_k(i, types, adj) # None
    /\ ELECTRONEG[types[j] + 1] > ELECTRONEG[types[weakest_k(i, types, adj)] + 1] + 10

\* reaction_substitution(i, j, ...)
reaction_substitution(i, j, types, p, adj, bs, T, rv, u1, u2, u3) ==
    IF SubstitutionFires(i, j, types, adj, T)
    THEN LET r == remove_bond_between(i, weakest_k(i, types, adj), bs, adj)
         IN  try_form_bond(i, j, types, p, r.pbonds, r.bonds, T, rv, u1, u2, u3)
    ELSE [ok |-> FALSE, bonds |-> bs, pbonds |-> adj]

\* random.random() < min(0.5, prob) in reaction_dissociation, with
\* prob = (P_DISSOC_BASE + P_DISSOC_HIGH_T * (T - T_IONIC_MIN)) / (1 + 0.6 * (n - 1))
DissociationDraw(u, T, n) ==
    LET base == 50 + (IF T >= T_IONIC_MIN THEN 5 * (T - T_IONIC_MIN) ELSE 0)
    IN  u < 500 /\ u * (4 + 6 * n) < base

\* reaction_dissociation(i, ...); u is the draw of random.random() and c the
\* position random.choice picks in particles[i].bonds
reaction_dissociation(i, adj, bs, T, u, c) ==
    IF Len(adj[i]) <= 1 THEN [ok |-> FALSE, bonds |-> bs, pbonds |-> adj]
    ELSE IF DissociationDraw(u, T, Len(adj[i]))
    THEN LET r == remove_bond_between(i, adj[i][c], bs, adj)
         IN  [ok |-> TRUE, bonds |-> r.bonds, pbonds |-> r.pbonds]
    ELSE [ok |-> FALSE, bonds |-> bs, pbonds |-> adj]

----------------------------------------------------------------------------
(* sim_core.py: SpatialGrid *)

RECURSIVE AscendingFrom(_, _, _)
AscendingFrom(S, k, n) ==
    IF k >= n THEN <<>>
    ELSE (IF k \in S THEN <<k>> ELSE <<>>) \o AscendingFrom(S, k + 1, n)

\* the cell of a position: (int(x // cell_size), int(y // cell_size))
CellOf(xy) == <<xy[1] \div CELL_SIZE, xy[2] \div CELL_SIZE>>

\* grid.clear() followed by grid.insert(i, p.x, p.y) for every particle in
\* index order
RebuildGrid(p) ==
    LET n == Cardinality(DOMAIN p)
    IN  [c \in {CellOf(p[k]) : k \in DOMAIN p} |->
            AscendingFrom({k \in DOMAIN p : CellOf(p[k]) = c}, 0, n)]

\* the order in which neighbors() walks the 3x3 block
CellOffsets ==
    << <<-1, -1>>, <<-1, 0>>, <<-1, 1>>, <<0, -1>>, <<0, 0>>, <<0, 1>>,
       <<1, -1>>, <<1, 0>>, <<1, 1>> >>

RECURSIVE NeighborsFrom(_, _, _)
NeighborsFrom(g, c, n) ==
    IF n > Len(CellOffsets) THEN <<>>
    ELSE LET cell == <<c[1] + CellOffsets[n][1], c[2] + CellOffsets[n][2]>>
         IN  (IF cell \in DOMAIN g THEN g[cell] ELSE <<>>) \o NeighborsFrom(g, c, n + 1)

\* SpatialGrid.neighbors(x, y): the indices it yields, in order
neighbors(g, xy) == NeighborsFrom(g, CellOf(xy), 1)

----------------------------------------------------------------------------
(* sim_core.py: Simulation *)

\* the particle types _create_particles appends: n_per_type of each type
\* 0 .. n_types-1, in that order (range() of a number <= 0 is empty)
NumCreated(n_types, n_per_type) ==
    IF n_types <= 0 \/ n_per_type <= 0 THEN 0 ELSE n_types * n_per_type

CreatedTypes(n_types, n_per_type) ==
    [k \in 0..(NumCreated(n_types, n_per_type) - 1) |-> k \div n_per_type]

\* the placements random.uniform may draw for n particles: n of the
\* PosChoices, handed out in list order
Layouts(n) ==
    {f \in [0..(n - 1) -> 1..Len(PosChoices)] :
        \A a, b \in 0..(n - 1) : a < b => f[a] < f[b]}

CreatedPositions(lay) == [k \in DOMAIN lay |-> PosChoices[lay[k]]]

EmptyGrid == [c \in {} |-> <<>>]

\* the state Simulation.__init__(n_types, particles_per_type, temperature) leaves
Constructed(n_types, n_per_type, T, lay) ==
    /\ ptype = CreatedTypes(n_types, n_per_type)
    /\ pos = CreatedPositions(lay)
    /\ pbonds = [k \in DOMAIN lay |-> <<>>]
    /\ bonds = <<>>
    /\ grid = EmptyGrid
    /\ temperature = T
    /\ pc = "idle"
    /\ pairs = <<>>
    /\ curRv = 0
    /\ calls = 0
    /\ call = [op |-> "Simulation", args |-> <<n_types, n_per_type, T>>,
               ret |-> FALSE, raised |-> "none"]

\* a simulation built with a valid configuration, as main.py builds it
Init ==
    \E n_types \in 1..5, n_per_type \in 1..MaxParticles, T \in InitTemps :
        /\ n_types * n_per_type <= MaxParticles
        /\ \E lay \in Layouts(n_types * n_per_type) :
               Constructed(n_types, n_per_type, T, lay)

\* the (i, j) iterations of the pair pass that get past "if j <= i: continue"
RECURSIVE PairsFrom(_, _, _)
PairsFrom(g, p, i) ==
    IF i >= Cardinality(DOMAIN p) THEN <<>>
    ELSE LET nb == neighbors(g, p[i])
             keep == SelectSeq(nb, LAMBDA j : j > i)
         IN  [n \in 1..Len(keep) |-> <<i, keep[n]>>] \o PairsFrom(g, p, i + 1)

Result(op, args, ret) == [op |-> op, args |-> args, ret |-> ret, raised |-> "none"]

\* step(), lines 79-89: rebuild the grid, start the pair pass
StepBegin ==
    /\ pc = "idle"
    /\ calls < MaxCalls
    /\ grid' = RebuildGrid(pos)
    /\ pairs' = PairsFrom(RebuildGrid(pos), pos, 0)
    /\ pc' = "pairs"
    /\ calls' = calls + 1
    /\ call' = Result("step", <<>>, FALSE)
    /\ UNCHANGED <<ptype, pos, pbonds, bonds, temperature, curRv>>

\* one iteration of the pair pass up to the first try_form_bond: the bonded
\* pair is skipped whole; otherwise the non-bonded force is accumulated and
\* _process_reactions(i, j) starts (range test, prebond_damp)
VisitPair ==
    /\ pc = "pairs"
    /\ pairs # <<>>
    /\ LET i == Head(pairs)[1]
           j == Head(pairs)[2]
       IN  IF InList(j, pbonds[i])
           THEN /\ pairs' = Tail(pairs)
                /\ call' = Result("pair_skipped", <<i, j>>, FALSE)
                /\ UNCHANGED <<pc, curRv>>
           ELSE IF R2(pos, i, j) > CAPTURE_RADIUS * CAPTURE_RADIUS
           THEN /\ pairs' = Tail(pairs)
                /\ call' = Result("_process_reactions", <<i, j>>, FALSE)
                /\ UNCHANGED <<pc, curRv>>
           ELSE /\ \E rv \in RelV2Values : curRv' = rv
                /\ pc' = "form"
                /\ call' = Result("prebond_damp", <<i, j>>, FALSE)
                /\ UNCHANGED pairs
    /\ UNCHANGED <<ptype, pos, pbonds, bonds, grid, temperature, calls>>

\* _process_reactions, line 154: if try_form_bond(i, j, ...): return
TryForm ==
    /\ pc = "form"
    /\ LET i == Head(pairs)[1]
           j == Head(pairs)[2]
       IN  \E r \in {try_form_bond(i, j, ptype, pos, pbonds, bonds, temperature, curRv, u1, u2, u3) :
                        u1 \in DrawValues, u2 \in DrawValues, u3 \in DrawValues} :
            /\ bonds' = r.bonds
            /\ pbonds' = r.pbonds
            /\ call' = Result("try_form_bond", <<i, j>>, r.ok)
            /\ pc' = IF r.ok THEN "pairs" ELSE "addition"
            /\ pairs' = IF r.ok THEN Tail(pairs) ELSE pairs
    /\ UNCHANGED <<ptype, pos, grid, temperature, curRv, calls>>

\* _process_reactions, line 157
Addition ==
    /\ pc = "addition"
    /\ LET i == Head(pairs)[1]
           j == Head(pairs)[2]
       IN  \E r \in {reaction_addition(i, j, ptype, pos, pbonds, bonds, temperature, curRv, u1, u2, u3) :
                        u1 \in DrawValues, u2 \in DrawValues, u3 \in DrawValues} :
            /\ bonds' = r.bonds
            /\ pbonds' = r.pbonds
            /\ call' = Result("reaction_addition", <<i, j>>, r.ok)
    /\ pc' = "substitution"
    /\ UNCHANGED <<ptype, pos, grid, temperature, pairs, curRv, calls>>

\* _process_reactions, line 158; the call record keeps the displaced
\* neighbour k (None when the substitution does not fire)
Substitution ==
    /\ pc = "substitution"
    /\ LET i == Head(pairs)[1]
           j == Head(pairs)[2]
           k == IF SubstitutionFires(i, j, ptype, pbonds, temperature)
                THEN weakest_k(i, ptype, pbonds) ELSE None
       IN  \E r \in {reaction_substitution(i, j, ptype, pos, pbonds, bonds, temperature, curRv, u1, u2, u3) :
                        u1 \in DrawValues, u2 \in DrawValues, u3 \in DrawValues} :
            /\ bonds' = r.bonds
            /\ pbonds' = r.pbonds
            /\ call' = Result("reaction_substitution", <<i, j, k>>, r.ok)
    /\ pc' = "dissociation"
    /\ UNCHANGED <<ptype, pos, grid, temperature, pairs, curRv, calls>>

\* _process_reactions, line 159; the pair is done
Dissociation ==
    /\ pc = "dissociation"
    /\ LET i == Head(pairs)[1]
       IN  \E r \in {reaction_dissociation(i, pbonds, bonds, temperature, u, c) :
                        u \in DrawValues, c \in 1..Max(1, Len(pbonds[i]))} :
            /\ bonds' = r.bonds
            /\ pbonds' = r.pbonds
            /\ call' = Result("reaction_dissociation", <<i>>, r.ok)
    /\ pc' = "pairs"
    /\ pairs' = Tail(pairs)
    /\ UNCHANGED <<ptype, pos, grid, temperature, curRv, calls>>

\* the unordered pairs the ledger bonds
BondedPairs(bs) == {{bs[n].i, bs[n].j} : n \in 1..Len(bs)}

\* bond pass, line 126: the ledger positions marked for breaking; rvf gives
\* the relative speed^2 of each bonded pair
bonds_to_break(bs, p, adj, T, rvf) ==
    SelectSeq([n \in 1..Len(bs) |-> n],
              LAMBDA n : \/ compute_bond_force_broken(p, bs[n])
                         \/ try_break_bond(bs[n], p, adj, T, rvf[{bs[n].i, bs[n].j}]))

\* mutant of RemovePass: the marks are walked in ascending order, so every
\* removal shifts the ledger positions the later marks stand for
RECURSIVE RemovePass_ascending(_, _, _)
RemovePass_ascending(marks, bs, adj) ==
    IF marks = <<>> THEN [bonds |-> bs, pbonds |-> adj]
    ELSE IF Head(marks) > Len(bs) THEN RemovePass_ascending(Tail(marks), bs, adj)
    ELSE LET b == bs[Head(marks)]
             r == remove_bond_between(b.i, b.j, bs, adj)
         IN  RemovePass_ascending(Tail(marks), r.bonds, r.pbonds)

\* removal pass, lines 129-131: for b_idx in reversed(bonds_to_break)
RECURSIVE RemovePass(_, _, _)
RemovePass(marks, bs, adj) ==
    IF marks = <<>> THEN [bonds |-> bs, pbonds |-> adj]
    ELSE LET b == bs[marks[Len(marks)]]
             r == remove_bond_between(b.i, b.j, bs, adj)
         IN  RemovePass(SubSeq(marks, 1, Len(marks) - 1), r.bonds, r.pbonds)

\* step(), lines 107-135: the bond pass ages every bond and marks the broken
\* ones, the removal pass removes them (the forces and the low-temperature
\* geometry correction only feed the velocities)
bond_and_removal_pass(bs, p, adj, T, rvf) ==
    LET aged == [n \in 1..Len(bs) |-> [bs[n] EXCEPT !.age = @ + 1]]
        marks == bonds_to_break(aged, p, adj, T, rvf)
        r == RemovePass(marks, aged, adj)
    IN  [marks |-> marks, bonds |-> r.bonds, pbonds |-> r.pbonds]

BondPass ==
    /\ pc = "pairs"
    /\ pairs = <<>>
    /\ \E r \in {bond_and_removal_pass(bonds, pos, pbonds, temperature, rvf) :
                    rvf \in [BondedPairs(bonds) -> RelV2Values]} :
        /\ bonds' = r.bonds
        /\ pbonds' = r.pbonds
        /\ call' = Result("bond_pass", r.marks, FALSE)
    /\ pc' = "integrate"
    /\ UNCHANGED <<ptype, pos, grid, temperature, pairs, curRv, calls>>

\* integrate(), physics.py lines 172-204, which ends step(): the velocity
\* kick and the speed limit, then apply_langevin for the first particle, whose
\* line 146 takes math.sqrt(2 * gamma * temperature) and then reads the
\* undefined name bonding_factor; the thermostat and the position update
\* (lines 190-204) are reached only with no particle at all
integrate_raises(n, T) ==
    IF n = 0 THEN "none" ELSE IF T < 0 THEN "ValueError" ELSE "NameError"

Integrate ==
    /\ pc = "integrate"
    /\ pc' = "idle"
    /\ call' = [op |-> "step", args |-> <<>>,
                ret |-> integrate_raises(NumParticles, temperature) = "none",
                raised |-> integrate_raises(NumParticles, temperature)]
    /\ UNCHANGED <<ptype, pos, pbonds, bonds, grid, temperature, pairs, curRv, calls>>

\* increase_temperature(amount)
increase_temperature(T, amount) == T + amount

\* decrease_temperature(amount)
decrease_temperature(T, amount) == Max(TEMP_FLOOR, T - amount)

IncreaseTemperature(amount) ==
    /\ pc = "idle"
    /\ calls < MaxCalls
    /\ temperature' = increase_temperature(temperature, amount)
    /\ calls' = calls + 1
    /\ call' = Result("increase_temperature", <<amount>>, FALSE)
    /\ UNCHANGED <<ptype, pos, pbonds, bonds, grid, pc, pairs, curRv>>

DecreaseTemperature(amount) ==
    /\ pc = "idle"
    /\ calls < MaxCalls
    /\ temperature' = decrease_temperature(temperature, amount)
    /\ calls' = calls + 1
    /\ call' = Result("decrease_temperature", <<amount>>, FALSE)
    /\ UNCHANGED <<ptype, pos, pbonds, bonds, grid, pc, pairs, curRv>>

Increase == \E amount \in TempAmounts : IncreaseTemperature(amount)

Decrease == \E amount \in TempAmounts : DecreaseTemperature(amount)

Next ==
    \/ StepBegin
    \/ VisitPair
    \/ TryForm
    \/ Addition
    \/ Substitution
    \/ Dissociation
    \/ BondPass
    \/ Integrate
    \/ Increase
    \/ Decrease

Spec == Init /\ [][Next]_vars

----------------------------------------------------------------------------
(* Simulation(n_types=4, particles_per_type=1): the smallest population in  *)
(* which one particle meets three partners of rising electronegativity.     *)

InitFour ==
    \E T \in InitTemps, lay \in Layouts(4) : Constructed(4, 1, T, lay)

SpecFour == InitFour /\ [][Next]_vars

----------------------------------------------------------------------------
(* The temperature interface alone: any initial temperature, any amount.    *)

AnyTemps == {-50, 0, 5, 75, 80, 160}
AnyAmounts == {-100, -10, 0, 10, 100}

InitTemp ==
    \E T \in AnyTemps, lay \in Layouts(1) : Constructed(1, 1, T, lay)

IncreaseAny == \E amount \in AnyAmounts : IncreaseTemperature(amount)

DecreaseAny == \E amount \in AnyAmounts : DecreaseTemperature(amount)

NextTemp == IncreaseAny \/ DecreaseAny

SpecTemp == InitTemp /\ [][NextTemp]_vars

----------------------------------------------------------------------------
(* The constructor, called with valid and invalid configurations.           *)

CtorTypes == 0..6
CtorPerType == {-1, 0, 1}

InitCtor ==
    \E n_types \in CtorTypes, n_per_type \in CtorPerType, T \in AnyTemps :
        /\ ptype = <<>>
        /\ pos = <<>>
        /\ pbonds = <<>>
        /\ bonds = <<>>
        /\ grid = EmptyGrid
        /\ temperature = 0
        /\ pc = "new"
        /\ pairs = <<>>
        /\ curRv = 0
        /\ calls = 0
        /\ call = Result("args", <<n_types, n_per_type, T>>, FALSE)

\* Simulation.__init__, sim_core.py lines 61-76: no argument is validated
\* and no path raises
Construct ==
    /\ pc = "new"
    /\ LET n_types == call.args[1]
           n_per_type == call.args[2]
           T == call.args[3]
       IN  \E lay \in Layouts(NumCreated(n_types, n_per_type)) :
            /\ ptype' = CreatedTypes(n_types, n_per_type)
            /\ pos' = CreatedPositions(lay)
            /\ pbonds' = [k \in DOMAIN lay |-> <<>>]
            /\ temperature' = T
            /\ call' = [op |-> "Simulation", args |-> <<n_types, n_per_type, T>>,
                        ret |-> FALSE, raised |-> "none"]
    /\ pc' = "idle"
    /\ UNCHANGED <<bonds, grid, pairs, curRv, calls>>

SpecCtor == InitCtor /\ [][Construct]_vars

----------------------------------------------------------------------------
(* wrap() as a pure function of any displacement.                           *)

WrapInputs ==
    {-2000, -1601, -1600, -1201, -1200, -1199, -801, -800, -401, -400, -399,
     0, 10, 399, 400, 401, 800, 1199, 1200, 1201, 1600, 2000}
WrapInputsY == {-1300, -401, -400, 0, 400, 600}

InitWrap ==
    \E dx \in WrapInputs, dy \in WrapInputsY :
        /\ ptype = <<>>
        /\ pos = <<>>
        /\ pbonds = <<>>
        /\ bonds = <<>>
        /\ grid = EmptyGrid
        /\ temperature = 0
        /\ pc = "wrap"
        /\ pairs = <<>>
        /\ curRv = 0
        /\ calls = 0
        /\ call = Result("args", <<dx, dy>>, <<>>)

Wrap ==
    /\ pc = "wrap"
    /\ pc' = "wrapped"
    /\ call' = Result("wrap", call.args, wrap(call.args[1], call.args[2]))
    /\ UNCHANGED <<ptype, pos, pbonds, bonds, grid, temperature, pairs, curRv, calls>>

SpecWrap == InitWrap /\ [][Wrap]_vars

----------------------------------------------------------------------------
(* try_form_bond() on two unbonded particles set up by hand, as in the      *)
(* formation scenario: the call record keeps the inputs                     *)
(* <<i, j, relv2, u1, u2, u3>> of the call.                                 *)

FormTemps == {50, 110, 170}

InitForm ==
    \E ti \in 0..4, tj \in 0..4, T \in FormTemps, lay \in Layouts(2) :
        /\ ptype = [k \in 0..1 |-> IF k = 0 THEN ti ELSE tj]
        /\ pos = CreatedPositions(lay)
        /\ pbonds = [k \in 0..1 |-> <<>>]
        /\ bonds = <<>>
        /\ grid = EmptyGrid
        /\ temperature = T
        /\ pc = "scenario"
        /\ pairs = <<>>
        /\ curRv = 0
        /\ calls = 0
        /\ call = Result("args", <<0, 1>>, FALSE)

FormCall ==
    /\ pc = "scenario"
    /\ \E rv \in RelV2Values, u1 \in DrawValues, u2 \in DrawValues, u3 \in DrawValues :
        \E r \in {try_form_bond(0, 1, ptype, pos, pbonds, bonds, temperature, rv, u1, u2, u3)} :
            /\ bonds' = r.bonds
            /\ pbonds' = r.pbonds
            /\ call' = Result("try_form_bond", <<0, 1, rv, u1, u2, u3>>, r.ok)
    /\ pc' = "returned"
    /\ UNCHANGED <<ptype, pos, grid, temperature, pairs, curRv, calls>>

SpecForm == InitForm /\ [][FormCall]_vars

----------------------------------------------------------------------------
(* step() on a bonded pair set up by hand with its endpoints driven apart,  *)
(* as in the distance-break scenario; a third particle may hold a second,   *)
(* relaxed bond before or after it in the ledger.                           *)

BreakDistances == {20, 32, 45, 60, 410}
BondLengths == {125, 180, 220}
BondTypes == {"covalent", "ionic", "metallic"}

HandBond(i, j, bond_type, order, length) ==
    [i |-> i, j |-> j, type |-> bond_type, order |-> order, length |-> length,
     dipole |-> j,
     acceptor |-> IF bond_type = "ionic" THEN j ELSE None,
     donor |-> IF bond_type = "ionic" THEN i ELSE None,
     age |-> 0]

InitBreak ==
    \E r \in BreakDistances, length \in BondLengths, order \in 1..3,
       bond_type \in BondTypes, T \in InitTemps, extra \in {"none", "before", "after"} :
        LET driven == HandBond(0, 1, bond_type, order, length)
            relaxed == HandBond(0, 2, "covalent", 1, 125)
        IN  /\ ptype = ZeroBased(IF extra = "none" THEN <<0, 1>> ELSE <<0, 1, 2>>)
            /\ pos = ZeroBased(IF extra = "none" THEN <<(<<15, 10>>), (<<15 + r, 10>>)>>
                               ELSE <<(<<15, 10>>), (<<15 + r, 10>>), (<<5, 10>>)>>)
            /\ pbonds = ZeroBased(IF extra = "none" THEN <<(<<1>>), (<<0>>)>>
                                  ELSE IF extra = "before" THEN <<(<<2, 1>>), (<<0>>), (<<0>>)>>
                                  ELSE <<(<<1, 2>>), (<<0>>), (<<0>>)>>)
            /\ bonds = IF extra = "none" THEN <<driven>>
                       ELSE IF extra = "before" THEN <<relaxed, driven>>
                       ELSE <<driven, relaxed>>
            /\ grid = EmptyGrid
            /\ temperature = T
            /\ pc = "idle"
            /\ pairs = <<>>
            /\ curRv = 0
            /\ calls = 0
            /\ call = Result("args", <<>>, FALSE)

SpecBreak == InitBreak /\ [][Next]_vars

----------------------------------------------------------------------------
(* Properties *)

\* the neighbours listed in particles[i].bonds, as a set
AdjacencySet(i) == {pbonds[i][n] : n \in 1..Len(pbonds[i])}

\* the particles the ledger bonds i to
LedgerPartners(i) ==
    {j \in Indices : \E n \in 1..Len(bonds) : {bonds[n].i, bonds[n].j} = {i, j}}

\* whether the ledger or an adjacency list still bonds i and j
StillBonded(bs, adj, i, j) ==
    FirstMatch(bs, i, j) # 0 \/ InList(j, adj[i]) \/ InList(i, adj[j])

\* C1: in every state, for every particle i, the set of indices in
\* particles[i].bonds is exactly the set of j the ledger bonds to i.
LedgerAdjacencyConsistent ==
    \A i \in Indices : AdjacencySet(i) = LedgerPartners(i)

\* C1 witness: the removal pass of a step() has just removed at least one
\* bond and the ledger still holds two or more bonds.
LedgerAdjacencyWitness ==
    /\ pc = "integrate"
    /\ call.op = "bond_pass"
    /\ call.args # <<>>
    /\ Len(bonds) >= 2

\* C2: the ledger never holds two bonds for the same unordered pair and no
\* adjacency list holds the same neighbour twice.
NoDuplicateBonds ==
    /\ \A a, b \in 1..Len(bonds) :
           a # b => {bonds[a].i, bonds[a].j} # {bonds[b].i, bonds[b].j}
    /\ \A i \in Indices : \A a, b \in 1..Len(pbonds[i]) :
           a # b => pbonds[i][a] # pbonds[i][b]

\* C3: in every state every particle has at most dynamic_max_bonds bonds,
\* the maximum being computed from its current shell deficit.
ValenceBound ==
    \A p \in Indices : Len(pbonds[p]) <= dynamic_max_bonds(p, ptype, bonds)

\* C4: every step() on a simulation with at least one particle runs all its
\* phases and returns normally.
StepReturnsNormally ==
    (pc = "idle" /\ call.op = "step" /\ NumParticles >= 1)
        => (call.ret /\ call.raised = "none")

\* C5: the temperature is never below the floor 0.05, whatever the initial
\* temperature and the amounts passed to increase_/decrease_temperature.
TemperatureAtLeastFloor == temperature >= TEMP_FLOOR

\* a configuration the specification calls invalid
InvalidConfig(n_types, n_per_type) ==
    n_types <= 0 \/ n_types > 5 \/ n_per_type < 0

\* C6: constructing a Simulation with an invalid configuration fails with a
\* configuration error and yields no simulation.
InvalidConfigRejected ==
    (call.op = "Simulation" /\ InvalidConfig(call.args[1], call.args[2]))
        => call.raised # "none"

\* the image d + k * extent of smallest magnitude is no smaller than w
MinimalImage(w, d, extent) ==
    /\ 2 * Abs(w) <= extent
    /\ (w - d) % extent = 0
    /\ \A k \in -4..4 : Abs(w) <= Abs(d + k * extent)

\* C7: for every displacement component outside [-W/2, W/2], however far,
\* wrap returns the periodic image of smallest magnitude.
WrapMinimalImage ==
    call.op = "wrap" =>
        /\ 2 * Abs(call.args[1]) > WORLD_WIDTH
               => MinimalImage(call.ret[1], call.args[1], WORLD_WIDTH)
        /\ 2 * Abs(call.args[2]) > WORLD_HEIGHT
               => MinimalImage(call.ret[2], call.args[2], WORLD_HEIGHT)

\* C7 as amended: for every displacement component d with
\* W/2 < |d| <= 3W/2 (every difference of two positions inside the world is
\* one), wrap returns the periodic image of smallest magnitude.
WrapMinimalImageWithinOneExtent ==
    call.op = "wrap" =>
        /\ (2 * Abs(call.args[1]) > WORLD_WIDTH /\ 2 * Abs(call.args[1]) <= 3 * WORLD_WIDTH)
               => MinimalImage(call.ret[1], call.args[1], WORLD_WIDTH)
        /\ (2 * Abs(call.args[2]) > WORLD_HEIGHT /\ 2 * Abs(call.args[2]) <= 3 * WORLD_HEIGHT)
               => MinimalImage(call.ret[2], call.args[2], WORLD_HEIGHT)

\* C7 witness: wrap has folded dx = -1200 (the far end of the range) and
\* dy = 600 back into the half-extent range.
WrapWitness ==
    /\ call.op = "wrap"
    /\ call.args = <<-1200, 600>>
    /\ call.ret = <<-400, -200>>

\* the formation scenario: two unbonded particles of one type at wrapped
\* distance 10, zero relative velocity, temperature 0.5, and the draw that
\* decides the formation forced to succeed
FormationScenario ==
    /\ call.op = "try_form_bond"
    /\ ptype[0] = ptype[1]
    /\ R2(pos, 0, 1) = 100
    /\ temperature = 50
    /\ call.args[3] = 0
    /\ call.args[4] = 0

\* C8: in the formation scenario with every draw forced to succeed,
\* try_form_bond returns True and appends exactly one covalent bond of
\* order 1, for every particle type 0..4.
FormationSingleCovalent ==
    (FormationScenario /\ call.args[5] = 0 /\ call.args[6] = 0) =>
        /\ call.ret
        /\ Len(bonds) = 1
        /\ bonds[1].type = "covalent"
        /\ bonds[1].order = 1

\* C8 as amended: in the formation scenario, for the types 0..3
\* try_form_bond returns True and appends exactly one covalent bond; with
\* the order draws forced to succeed too its order is 3 for the types 0 and
\* 1, 2 for type 2 and 1 for type 3, and it is 1 for every type when the
\* first order draw fails; for type 4, whose shell is full, try_form_bond
\* returns False and appends nothing.
FormationByType ==
    FormationScenario =>
        IF ptype[0] = 4
        THEN ~call.ret /\ bonds = <<>> /\ pbonds[0] = <<>> /\ pbonds[1] = <<>>
        ELSE /\ call.ret
             /\ Len(bonds) = 1
             /\ pbonds[0] = <<1>> /\ pbonds[1] = <<0>>
             /\ bonds[1].type = "covalent"
             /\ (call.args[5] = 0 /\ call.args[6] = 0)
                    => bonds[1].order = <<3, 3, 2, 1>>[ptype[0] + 1]
             /\ call.args[5] = 990 => bonds[1].order = 1

\* C8 witness: the scenario has run for type 0 with all draws forced, and a
\* covalent bond of order 3 is in the ledger.
FormationWitness ==
    /\ FormationScenario
    /\ ptype[0] = 0
    /\ call.args[5] = 0 /\ call.args[6] = 0
    /\ call.ret
    /\ Len(bonds) = 1
    /\ bonds[1].order = 3

\* r >= 2.5 * bond.length
DrivenApart(b) == R10(pos, b.i, b.j) * 10 >= 25 * b.length

\* C9: a ledger bond of any order and type whose endpoints are at least
\* 2.5 * bond.length apart is flagged broken (compute_bond_force's flag or
\* try_break_bond) at every temperature and relative velocity, and the
\* bond and removal passes of step() take it out of the ledger and of both
\* adjacency lists.
DistanceBreak ==
    [][\A n \in 1..Len(bonds) : DrivenApart(bonds[n]) =>
          /\ \A rv \in RelV2Values :
                \/ compute_bond_force_broken(pos, bonds[n])
                \/ try_break_bond(bonds[n], pos, pbonds, temperature, rv)
          /\ (pc = "pairs" /\ pc' = "integrate")
                => ~StillBonded(bonds', pbonds', bonds[n].i, bonds[n].j)]_vars

\* C9 witness: particles 0 and 1, 60 apart (more than 2.5 times the longest
\* bond length), were bonded by the only bond of the ledger; the removal
\* pass has removed a marked bond and they are bonded no more.
DistanceBreakWitness ==
    /\ pc = "integrate"
    /\ call.op = "bond_pass"
    /\ call.args = <<1>>
    /\ NumParticles = 2
    /\ R10(pos, 0, 1) = 600
    /\ ~StillBonded(bonds, pbonds, 0, 1)

\* C10: when reaction_substitution(i, j) displaces the neighbour k of i,
\* the i-k bond is gone from the ledger and from both adjacency lists when
\* it returns, whether or not the i-j bond then forms.
SubstitutionRemovesBond ==
    (call.op = "reaction_substitution" /\ call.args[3] # None)
        => ~StillBonded(bonds, pbonds, call.args[1], call.args[3])

\* C11: a bonded pair (i < j) the neighbour query returns is skipped for the
\* non-bonded force only; when it is within capture range the pair pass
\* still routes it through _process_reactions(i, j), so a pair the pass
\* skips whole is never within capture range.
BondedPairStillRouted ==
    call.op = "pair_skipped" =>
        R2(pos, call.args[1], call.args[2]) > CAPTURE_RADIUS * CAPTURE_RADIUS

\* the ledger with every bond aged by the bond pass
Aged(bs) == [n \in 1..Len(bs) |-> [bs[n] EXCEPT !.age = @ + 1]]

\* the bonds of bs at the positions that are not marked, in ledger order
Unmarked(bs, marks) ==
    LET keep == SelectSeq([n \in 1..Len(bs) |-> n], LAMBDA n : ~InList(n, marks))
    IN  [n \in 1..Len(keep) |-> bs[keep[n]]]

\* how many times x occurs in the list s
Count(x, s) == Cardinality({n \in 1..Len(s) : s[n] = x})

\* how many bonds of bs have the endpoints {i, j}
LedgerCount(bs, i, j) ==
    Cardinality({n \in 1..Len(bs) : {bs[n].i, bs[n].j} = {i, j}})

\* C12: the bond pass marks ledger positions without changing the ledger,
\* and after the removal pass the ledger holds exactly the unmarked bonds,
\* in their order: every marked bond is gone from the ledger and from both
\* adjacency lists, and every unmarked bond is still there with the
\* adjacency entries of its endpoints.
RemovalPassExact ==
    [][(pc = "pairs" /\ pc' = "integrate") =>
          LET marks == call'.args
          IN  /\ \A n \in 1..Len(marks) : marks[n] \in 1..Len(bonds)
              /\ \A a, b \in 1..Len(marks) : a < b => marks[a] < marks[b]
              /\ bonds' = Unmarked(Aged(bonds), marks)
              /\ \A n \in 1..Len(marks) :
                     ~StillBonded(bonds', pbonds', bonds[marks[n]].i, bonds[marks[n]].j)
              /\ \A i, j \in Indices :
                     i # j => Count(j, pbonds'[i]) = LedgerCount(bonds', i, j)]_vars

\* C12 witness: a removal pass has removed two or more marked bonds, so the
\* positions of the ledger shifted under the marks, and left a bond in place.
RemovalPassWitness ==
    /\ pc = "integrate"
    /\ call.op = "bond_pass"
    /\ Len(call.args) >= 2
    /\ call.args[1] > 1
    /\ Len(bonds) >= 1

\* how many iterations of the pair pass are for the pair (i, j)
Visits(ps, i, j) == Cardinality({n \in 1..Len(ps) : ps[n] = <<i, j>>})

\* C13: in every step(), each unordered pair of distinct particles that are
\* not bonded to each other and whose wrapped distance is within the capture
\* radius is visited exactly once by the pair pass, the pairs that are close
\* only across the world edge included.
NeighbourCoverage ==
    (pc = "pairs" /\ call.op = "step") =>
        \A i, j \in Indices :
            (/\ i < j
             /\ ~InList(j, pbonds[i])
             /\ R2(pos, i, j) <= CAPTURE_RADIUS * CAPTURE_RADIUS)
                => Visits(pairs, i, j) = 1

====
